---- MODULE Spec2Model ----
(***************************************************************************)
(* Leaderboard of quizplay: QuizPlayRepo.update_score and the four reads   *)
(* of LeaderBoardRepo, each of which issues exactly one Redis sorted-set   *)
(* command (ZADD, ZSCORE, ZREVRANK, ZREVRANGE) on the key                  *)
(* "leaderboard:<quiz_id>".  The sorted-set commands are modelled by what  *)
(* Redis does: scores are IEEE-754 doubles, members are byte strings       *)
(* ordered by memcmp, a key exists only once a member was added to it,     *)
(* and ZREVRANGE counts negative indexes from the end of the set.          *)
(***************************************************************************)
EXTENDS Integers, Sequences, FiniteSets, TLC

VARIABLES db, last, pc, cmd, reply, seen

vars == <<db, last, pc, cmd, reply, seen>>

(***************************************************************************)
(* Scores are 64-bit integers, held here in two parts: the integer         *)
(* hi * 2^30 + lo is the pair <<hi, lo>> with 0 <= lo < 2^30 (hi carries    *)
(* the sign, as in floor division).                                        *)
(***************************************************************************)
Radix == 2^30

Small(n) == <<n \div Radix, n % Radix>>

Two53 == <<2^23, 0>>

Plus1(s) == IF s[2] + 1 = Radix THEN <<s[1] + 1, 0>> ELSE <<s[1], s[2] + 1>>

Neg(s) == IF s[2] = 0 THEN <<0 - s[1], 0>> ELSE <<0 - s[1] - 1, Radix - s[2]>>

NumLess(a, b) == a[1] < b[1] \/ (a[1] = b[1] /\ a[2] < b[2])

IsNeg(s) == s[1] < 0

RECURSIVE BitLen(_)
BitLen(n) == IF n = 0 THEN 0 ELSE 1 + BitLen(n \div 2)

(***************************************************************************)
(* A double has a 53-bit significand.  A non-negative integer below 2^53   *)
(* is stored exactly; one in [2^(52+e), 2^(53+e)) is rounded to a multiple  *)
(* of 2^e, ties going to the even significand (strtod, round-to-nearest).  *)
(***************************************************************************)
MantissaBits == 53

RoundMag(s) ==
    LET e    == BitLen(s[1] \div 2^(MantissaBits - 30))
        unit == 2^e
        q    == s[2] \div unit
        r    == s[2] % unit
        up   == e > 0 /\ (2 * r > unit \/ (2 * r = unit /\ q % 2 = 1))
        lo   == (IF up THEN q + 1 ELSE q) * unit
    IN  IF lo = Radix THEN <<s[1] + 1, 0>> ELSE <<s[1], lo>>

\* The score ZADD stores for the integer the client sent.
ToDouble(s) == IF IsNeg(s) THEN Neg(RoundMag(Neg(s))) ELSE RoundMag(s)

\* int(score): the stored doubles are integral, so truncation keeps them.
PyInt(d) == d

(***************************************************************************)
(* Members are byte strings; Redis compares them with memcmp over the       *)
(* common prefix and then by length.                                       *)
(***************************************************************************)
RECURSIVE MemLess(_, _)
MemLess(a, b) ==
    IF a = <<>> THEN b # <<>>
    ELSE IF b = <<>> THEN FALSE
    ELSE IF Head(a) # Head(b) THEN Head(a) < Head(b)
    ELSE MemLess(Tail(a), Tail(b))

\* Ascending order of the sorted set: by score, then by member.
EntryLess(x, y) ==
    NumLess(x.score, y.score) \/ (x.score = y.score /\ MemLess(x.member, y.member))

LeaderboardKey(quiz_id) == <<"leaderboard", quiz_id>>

\* The sorted set at a key; a missing key reads as the empty set.
Lookup(d, key) == IF key \in DOMAIN d THEN d[key] ELSE <<>>

Members(zs) == {zs[i].member : i \in 1..Len(zs)}

IndexOf(zs, member) == CHOOSE i \in 1..Len(zs) : zs[i].member = member

ZRemove(zs, member) == SelectSeq(zs, LAMBDA x : x.member # member)

\* ZInsert that keeps the order of arrival instead of the sorted order.
ZInsertAtEnd(zs, x) == Append(zs, x)

ZInsert(zs, x) ==
    LET below == Cardinality({i \in 1..Len(zs) : EntryLess(zs[i], x)})
    IN  SubSeq(zs, 1, below) \o <<x>> \o SubSeq(zs, below + 1, Len(zs))

\* ZAdd that adds the new entry and leaves the member's old one in place.
ZAddKeepsOld(zs, member, score) ==
    ZInsert(zs, [member |-> member, score |-> ToDouble(score)])

\* ZADD key score member on one sorted set: the member's old entry, if any,
\* is replaced by one entry at the position of the new score.
ZAdd(zs, member, score) ==
    ZInsert(ZRemove(zs, member), [member |-> member, score |-> ToDouble(score)])

\* A nil reply is the empty tuple, a value v the tuple <<v>>.
Nil == <<>>

\* ZSCORE: the stored score, or nil.
ZScore(d, key, member) ==
    LET zs == Lookup(d, key)
    IN  IF member \in Members(zs) THEN <<zs[IndexOf(zs, member)].score>> ELSE Nil

\* ZRANK in place of ZREVRANK: the rank counted from the lowest entry.
ZRank(d, key, member) ==
    LET zs == Lookup(d, key)
    IN  IF member \in Members(zs) THEN <<IndexOf(zs, member) - 1>> ELSE Nil

\* ZREVRANK: the 0-based rank counted from the highest entry, or nil.
ZRevRank(d, key, member) ==
    LET zs == Lookup(d, key)
    IN  IF member \in Members(zs) THEN <<Len(zs) - IndexOf(zs, member)>> ELSE Nil

\* ZREVRANGE key start stop WITHSCORES.
ZRevRange(d, key, start, stop) ==
    LET zs   == Lookup(d, key)
        llen == Len(zs)
        s0   == IF start < 0 THEN llen + start ELSE start
        e0   == IF stop < 0 THEN llen + stop ELSE stop
        s1   == IF s0 < 0 THEN 0 ELSE s0
        e1   == IF e0 >= llen THEN llen - 1 ELSE e0
    IN  IF s1 > e0 \/ s1 >= llen THEN <<>>
        ELSE [i \in 1..(e1 - s1 + 1) |-> zs[llen - (s1 + i - 1)]]

\* The database after ZADD: the key is created on its first member.
DbZAdd(d, key, member, score) ==
    [k \in DOMAIN d \cup {key} |->
        IF k = key THEN ZAdd(Lookup(d, key), member, score) ELSE d[k]]

\* A read that creates the key it looks up, as an empty set.
DbReadCreating(d, key) == [k \in DOMAIN d \cup {key} |-> Lookup(d, key)]

\* The database after ZSCORE, ZREVRANK or ZREVRANGE: a read creates no key.
DbRead(d, key) == d

(***************************************************************************)
(* The repository methods.                                                 *)
(***************************************************************************)
update_score(d, quiz_id, user_id, score) ==
    DbZAdd(d, LeaderboardKey(quiz_id), user_id, score)

get_user_score(d, quiz_id, user_id) ==
    LET score == ZScore(d, LeaderboardKey(quiz_id), user_id)
    IN  IF score = Nil THEN Small(0) ELSE PyInt(score[1])

\* get_user_rank with the default of get_user_score for a nil reply.
get_user_rank_default_0(d, quiz_id, user_id) ==
    LET rank == ZRevRank(d, LeaderboardKey(quiz_id), user_id)
    IN  IF rank = Nil THEN 0 ELSE rank[1]

get_user_rank(d, quiz_id, user_id) ==
    LET rank == ZRevRank(d, LeaderboardKey(quiz_id), user_id)
    IN  IF rank = Nil THEN -1 ELSE rank[1]

Decode(rows) == [i \in 1..Len(rows) |-> <<rows[i].member, PyInt(rows[i].score)>>]

get_top_k_players(d, quiz_id, k) ==
    Decode(ZRevRange(d, LeaderboardKey(quiz_id), 0, k - 1))

\* get_m_users_around_rank without max(0, ...) on the start index.
get_m_users_around_rank_no_max(d, quiz_id, user_rank, m) ==
    LET half  == m \div 2
        start == user_rank - half
        end   == user_rank + half
    IN  Decode(ZRevRange(d, LeaderboardKey(quiz_id), start, end))

\* get_m_users_around_rank with the end index taken as exclusive.
get_m_users_around_rank_end_excl(d, quiz_id, user_rank, m) ==
    LET half  == m \div 2
        start == IF user_rank - half > 0 THEN user_rank - half ELSE 0
        end   == user_rank + half - 1
    IN  Decode(ZRevRange(d, LeaderboardKey(quiz_id), start, end))

get_m_users_around_rank(d, quiz_id, user_rank, m) ==
    LET half  == m \div 2
        start == IF user_rank - half > 0 THEN user_rank - half ELSE 0
        end   == user_rank + half
    IN  Decode(ZRevRange(d, LeaderboardKey(quiz_id), start, end))

(***************************************************************************)
(* Inputs.                                                                 *)
(***************************************************************************)
MaxK == 4
MaxRank == 2
MaxWidth == 3

Quizzes == {"q1", "q2"}

\* "a", "ab", "b"
Users == {<<97>>, <<97, 98>>, <<98>>}

\* 50, 2^53 and 2^53 + 1
Scores == {Small(50), Two53, Plus1(Two53)}

Ks == (0 - 1)..MaxK
Ranks == (0 - MaxRank)..MaxRank
Widths == 0..MaxWidth

\* The call made last: its arguments and its result (val for get_user_rank,
\* res for the other reads).
NoOp == [op |-> "none", quiz |-> "q1", user |-> <<>>, score |-> Small(0),
         k |-> 0, rank |-> 0, m |-> 0, val |-> 0, res |-> <<>>]

\* The request-handling workers that call the repositories at the same time.
Clients == {"w1", "w2"}

Init ==
    /\ db = <<>>
    /\ last = NoOp
    /\ pc = [c \in Clients |-> "idle"]
    /\ cmd = [c \in Clients |-> NoOp]
    /\ reply = [c \in Clients |-> <<>>]
    /\ seen = [c \in Clients |-> <<>>]

Idle == UNCHANGED <<pc, cmd, reply, seen>>

UpdateScore ==
    \E q \in Quizzes, u \in Users, s \in Scores :
        /\ db' = update_score(db, q, u, s)
        /\ last' = [NoOp EXCEPT !.op = "update_score", !.quiz = q, !.user = u,
                                !.score = s]
        /\ Idle

GetUserScore ==
    \E q \in Quizzes, u \in Users :
        /\ db' = DbRead(db, LeaderboardKey(q))
        /\ last' = [NoOp EXCEPT !.op = "get_user_score", !.quiz = q, !.user = u,
                                !.res = get_user_score(db, q, u)]
        /\ Idle

GetUserRank ==
    \E q \in Quizzes, u \in Users :
        /\ db' = DbRead(db, LeaderboardKey(q))
        /\ last' = [NoOp EXCEPT !.op = "get_user_rank", !.quiz = q, !.user = u,
                                !.val = get_user_rank(db, q, u)]
        /\ Idle

GetTopKPlayers ==
    \E q \in Quizzes, k \in Ks :
        /\ db' = DbRead(db, LeaderboardKey(q))
        /\ last' = [NoOp EXCEPT !.op = "get_top_k_players", !.quiz = q, !.k = k,
                                !.res = get_top_k_players(db, q, k)]
        /\ Idle

GetMUsersAroundRank ==
    \E q \in Quizzes, r \in Ranks, m \in Widths :
        /\ db' = DbRead(db, LeaderboardKey(q))
        /\ last' = [NoOp EXCEPT !.op = "get_m_users_around_rank", !.quiz = q,
                                !.rank = r, !.m = m,
                                !.res = get_m_users_around_rank(db, q, r, m)]
        /\ Idle

Next ==
    \/ UpdateScore
    \/ GetUserScore
    \/ GetUserRank
    \/ GetTopKPlayers
    \/ GetMUsersAroundRank

Spec == Init /\ [][Next]_vars

(***************************************************************************)
(* Concurrent workers.  A repository method sends its one command (Call),  *)
(* the Redis server executes the commands it received one at a time, each  *)
(* as a whole (Execute), and the method returns the converted reply        *)
(* (Return; update_score prints first).  seen[c] is the quiz's sorted set  *)
(* at the moment worker c called.                                          *)
(***************************************************************************)
ConcQuiz == "q1"

\* "a", "b"
ConcUsers == {<<97>>, <<98>>}

\* 50 and 2^53
ConcScores == {Small(50), Two53}

Calls ==
    {[NoOp EXCEPT !.op = "update_score", !.quiz = ConcQuiz, !.user = u, !.score = s] :
        u \in ConcUsers, s \in ConcScores}
    \cup {[NoOp EXCEPT !.op = o, !.quiz = ConcQuiz, !.user = u] :
        o \in {"get_user_score", "get_user_rank"}, u \in ConcUsers}
    \cup {[NoOp EXCEPT !.op = "get_top_k_players", !.quiz = ConcQuiz, !.k = MaxK]}
    \cup {[NoOp EXCEPT !.op = "get_m_users_around_rank", !.quiz = ConcQuiz,
                       !.rank = 1, !.m = MaxWidth]}

\* What the method called in c returns on database d.
Result(d, c) ==
    CASE c.op = "get_user_score" -> get_user_score(d, c.quiz, c.user)
      [] c.op = "get_user_rank" -> <<get_user_rank(d, c.quiz, c.user)>>
      [] c.op = "get_top_k_players" -> get_top_k_players(d, c.quiz, c.k)
      [] c.op = "get_m_users_around_rank" ->
             get_m_users_around_rank(d, c.quiz, c.rank, c.m)
      [] OTHER -> <<>>

\* The database after the server has executed the command of call c.
Executed(d, c) ==
    IF c.op = "update_score"
    THEN update_score(d, c.quiz, c.user, c.score)
    ELSE DbRead(d, LeaderboardKey(c.quiz))

Call(w) ==
    /\ pc[w] = "idle"
    /\ \E c \in Calls :
          /\ pc' = [pc EXCEPT ![w] = "sent"]
          /\ cmd' = [cmd EXCEPT ![w] = c]
          /\ seen' = [seen EXCEPT ![w] = Lookup(db, LeaderboardKey(c.quiz))]
    /\ UNCHANGED <<db, last, reply>>

Execute(w) ==
    /\ pc[w] = "sent"
    /\ db' = Executed(db, cmd[w])
    /\ reply' = [reply EXCEPT ![w] = Result(db, cmd[w])]
    /\ pc' = [pc EXCEPT ![w] = "replied"]
    /\ UNCHANGED <<last, cmd, seen>>

Return(w) ==
    /\ pc[w] = "replied"
    /\ pc' = [pc EXCEPT ![w] = "idle"]
    /\ cmd' = [cmd EXCEPT ![w] = NoOp]
    /\ reply' = [reply EXCEPT ![w] = <<>>]
    /\ seen' = [seen EXCEPT ![w] = <<>>]
    /\ UNCHANGED <<db, last>>

NextConc == \E w \in Clients : Call(w) \/ Execute(w) \/ Return(w)

SpecConc == Init /\ [][NextConc]_vars

\* The writes with the point reads, with top-k and with the window alone.
NextPoint == UpdateScore \/ GetUserScore \/ GetUserRank

SpecPoint == Init /\ [][NextPoint]_vars

NextTop == UpdateScore \/ GetTopKPlayers

SpecTop == Init /\ [][NextTop]_vars

NextAround == UpdateScore \/ GetMUsersAroundRank

SpecAround == Init /\ [][NextAround]_vars

(***************************************************************************)
(* Vocabulary of the properties.                                           *)
(***************************************************************************)
Rows(q) == Lookup(db, LeaderboardKey(q))

Pop(q) == Len(Rows(q))

Present(q, u) == u \in Members(Rows(q))

Held(q, u) == get_user_score(db, q, u)

Min(a, b) == IF a < b THEN a ELSE b

Max(a, b) == IF a > b THEN a ELSE b

ReadOps == {"get_user_score", "get_user_rank", "get_top_k_players",
            "get_m_users_around_rank"}

\* u comes strictly before v: higher score, or equal score and smaller identifier.
BeforeAsc(q, u, v) ==
    NumLess(Held(q, v), Held(q, u)) \/ (Held(q, u) = Held(q, v) /\ MemLess(u, v))

\* u comes strictly before v: higher score, or equal score and larger identifier.
BeforeDesc(q, u, v) ==
    NumLess(Held(q, v), Held(q, u)) \/ (Held(q, u) = Held(q, v) /\ MemLess(v, u))

Tied(q, u, v) == u # v /\ Present(q, u) /\ Present(q, v) /\ Held(q, u) = Held(q, v)

\* The entries of quiz q with rank lo..hi, in rank order, are exactly rows.
IsRankRange(q, rows, lo, hi) ==
    /\ Len(rows) = IF hi >= lo THEN hi - lo + 1 ELSE 0
    /\ \A i \in 1..Len(rows) :
          /\ Present(q, rows[i][1])
          /\ get_user_rank(db, q, rows[i][1]) = lo + i - 1
          /\ rows[i][2] = Held(q, rows[i][1])

C2_TopKIsPrefixOfLengthMinKN ==
    last.op = "get_top_k_players" =>
        IsRankRange(last.quiz, last.res, 0,
                    IF last.k > 0 THEN Min(last.k, Pop(last.quiz)) - 1 ELSE -1)

C4_WindowIsClippedRankInterval ==
    last.op = "get_m_users_around_rank" /\ last.rank >= 0 /\ last.m >= 0 =>
        IsRankRange(last.quiz, last.res,
                    Max(0, last.rank - last.m \div 2),
                    Min(last.rank + last.m \div 2, Pop(last.quiz) - 1))

\* A window around rank 1 that reaches below rank 0 and past the last rank of
\* a quiz of two, and returned both entries.
C4_Witness ==
    /\ last.op = "get_m_users_around_rank"
    /\ last.rank = 1
    /\ last.m \div 2 = 1
    /\ Pop(last.quiz) = 2
    /\ Len(last.res) = 2

(***************************************************************************)
(* C5.  For a negative center_rank the window is the one of center_rank 0  *)
(* with the same width.                                                    *)
(***************************************************************************)
C5_NegativeCenterClampedToZero ==
    last.op = "get_m_users_around_rank" /\ last.rank < 0 =>
        last.res = get_m_users_around_rank(db, last.quiz, 0, last.m)

(***************************************************************************)
(* C6.  As claimed: a window of width 0 is empty for every center_rank.    *)
(***************************************************************************)
C6_WidthZeroIsEmpty ==
    last.op = "get_m_users_around_rank" /\ last.m = 0 => last.res = <<>>

\* C6 as amended: for center_rank >= 0 a window of width 0 is the single entry
\* whose rank is center_rank when center_rank < n, and is empty when
\* center_rank >= n.
C6_WidthZeroIsTheCenterEntry ==
    last.op = "get_m_users_around_rank" /\ last.m = 0 /\ last.rank >= 0 =>
        IF last.rank < Pop(last.quiz)
        THEN IsRankRange(last.quiz, last.res, last.rank, last.rank)
        ELSE last.res = <<>>

\* A window of width 0 around the rank of an existing participant that is not
\* the first one.
C6_Witness ==
    /\ last.op = "get_m_users_around_rank"
    /\ last.m = 0
    /\ last.rank = 1
    /\ Len(last.res) = 1
    /\ get_user_rank(db, last.quiz, last.res[1][1]) = 1

(***************************************************************************)
(* C7.  Right after update_score(q, p, s), get_user_score(q, p) is s, p    *)
(* has exactly one entry in q and the scores of the other participants of  *)
(* q are as before.                                                        *)
(***************************************************************************)
C7_ScoreRoundTrip ==
    [][last'.op = "update_score" =>
          LET q == last'.quiz
              p == last'.user
              old == Lookup(db, LeaderboardKey(q))
              new == Lookup(db', LeaderboardKey(q))
          IN  /\ get_user_score(db', q, p) = last'.score
              /\ Cardinality({i \in 1..Len(new) : new[i].member = p}) = 1
              /\ \A u \in Users \ {p} :
                    /\ (u \in Members(new)) = (u \in Members(old))
                    /\ get_user_score(db', q, u) = get_user_score(db, q, u)]_vars

(***************************************************************************)
(* C8.  A read leaves the database as it was; on a quiz that never got an  *)
(* update_score it returns score 0, rank -1 or an empty sequence and the   *)
(* quiz still has no key afterwards; keys appear through update_score only.*)
(***************************************************************************)
C8_ReadsCreateNoIndex ==
    [][/\ last'.op \in ReadOps =>
            /\ db' = db
            /\ LeaderboardKey(last'.quiz) \notin DOMAIN db =>
                  /\ LeaderboardKey(last'.quiz) \notin DOMAIN db'
                  /\ last'.op = "get_user_score" => last'.res = Small(0)
                  /\ last'.op = "get_user_rank" => last'.val = -1
                  /\ last'.op \in {"get_top_k_players", "get_m_users_around_rank"}
                        => last'.res = <<>>
       /\ DOMAIN db' # DOMAIN db => last'.op = "update_score"]_vars

\* A window was read on a quiz without a key while the other quiz has one.
C8_Witness ==
    /\ last.op = "get_m_users_around_rank"
    /\ last.rank = 0
    /\ last.m > 0
    /\ LeaderboardKey(last.quiz) \notin DOMAIN db
    /\ DOMAIN db # {}

(***************************************************************************)
(* C9.  In a quiz that has entries, a participant without an entry gets    *)
(* rank -1 and score 0; a participant with an entry gets a rank in 0..n-1. *)
(***************************************************************************)
C9_AbsentParticipant ==
    /\ last.op = "get_user_rank" =>
          IF Present(last.quiz, last.user)
          THEN last.val \in 0..(Pop(last.quiz) - 1)
          ELSE last.val = -1
    /\ last.op = "get_user_score" /\ ~Present(last.quiz, last.user) =>
          last.res = Small(0)

\* The rank of a participant without an entry was read in a quiz of two.
C9_Witness ==
    /\ last.op = "get_user_rank"
    /\ Pop(last.quiz) = 2
    /\ ~Present(last.quiz, last.user)
    /\ last.val = -1

(***************************************************************************)
(* C10.  A read that runs while update_score calls run on the same quiz    *)
(* sees whole updates only: every participant that had an entry when the   *)
(* read was called is in its result (never -1 as rank, never missing from  *)
(* a full listing, so the population it sees is at least the one at the    *)
(* call), no participant is listed twice, and the listing is in ranked     *)
(* order.                                                                  *)
(***************************************************************************)
C10_ReadsSeeWholeUpdates ==
    \A w \in Clients :
        pc[w] = "replied" =>
            LET c == cmd[w]
                r == reply[w]
            IN  /\ c.op = "get_user_rank" /\ c.user \in Members(seen[w]) => r[1] >= 0
                /\ c.op = "get_user_score" /\ c.user \in Members(seen[w]) =>
                      r \in {ToDouble(s) : s \in ConcScores}
                /\ c.op \in {"get_top_k_players", "get_m_users_around_rank"} =>
                      /\ \A i, j \in 1..Len(r) : i < j => r[i][1] # r[j][1]
                      /\ \A i, j \in 1..Len(r) : i < j => ~NumLess(r[i][2], r[j][2])
                /\ c.op = "get_top_k_players" =>
                      /\ Members(seen[w]) \subseteq {r[i][1] : i \in 1..Len(r)}
                      /\ Len(r) >= Len(seen[w])

\* A full listing was returned to a worker with the same two participants as
\* at its call but another score for one of them, while the other worker's
\* update_score of an existing participant is still on its way.
C10_Witness ==
    \E w, x \in Clients :
        /\ pc[w] = "replied"
        /\ cmd[w].op = "get_top_k_players"
        /\ Len(seen[w]) = 2
        /\ Len(reply[w]) = 2
        /\ \E i \in 1..2 : \A j \in 1..2 :
              reply[w][i] # <<seen[w][j].member, seen[w][j].score>>
        /\ pc[x] = "sent"
        /\ cmd[x].op = "update_score"
        /\ cmd[x].user \in Members(seen[w])

====
